---- MODULE Spec2Model ----
(***************************************************************************)
(* A model of the badge-roster reconciliation pipeline of src/main.py:     *)
(* text normalisation (clean_series), header coalescing                    *)
(* (coalesce_columns), exception classification (compute_exceptions),      *)
(* filtering (apply_filters), de-duplication (build_unique_gpn), the       *)
(* identifier -> contact map (build_gpn_to_email_map), the mail hand-off   *)
(* (perform_action_with_emails) and the orchestration in main().           *)
(*                                                                         *)
(* A text is a sequence of characters.  A character is a one-letter string *)
(* or one of the tokens "NBSP" (U+00A0), "ZWSP" (U+200B), "TAB" (U+0009).  *)
(* A cell of a loaded table is a text or NaN, the value pandas gives an    *)
(* empty spreadsheet cell (read_excel with dtype=str).                     *)
(***************************************************************************)
EXTENDS Integers, Sequences, FiniteSets, TLC

VARIABLES
    pc,             \* position of main(), or of the function under study
    df_columns,     \* header labels of the badge roster, in file order
    df,             \* rows of the badge roster: [idx, cells]
    dfm_columns,    \* header labels of the e-mail master sheet
    dfm,            \* rows of the e-mail master sheet: [idx, cells]
    col,            \* col_gpn, col_name, col_status, col_cycle of main()
    exceptions,     \* result of compute_exceptions
    sel_status,     \* result of the first prompt_multi_select
    sel_cycle,      \* result of the second prompt_multi_select
    filtered,       \* result of apply_filters
    output_by_gpn,  \* result of build_unique_gpn
    gpn_to_email,   \* result of build_gpn_to_email_map
    valid_emails,   \* main(): resolved contacts
    missing_gpns,   \* main(): unresolved identifiers
    stdout,         \* report blocks printed so far, in order
    exit_code,      \* -1 while running, then the process exit status
    error,          \* what ended the run abnormally, "none" otherwise
    mail,           \* the Outlook item: [state, to]
    stages,         \* pipeline stages begun so far, in order
    arg,            \* argument of the function under study
    ret             \* its successive results

vars == <<pc, df_columns, df, dfm_columns, dfm, col, exceptions, sel_status,
          sel_cycle, filtered, output_by_gpn, gpn_to_email, valid_emails,
          missing_gpns, stdout, exit_code, error, mail, stages, arg, ret>>

----------------------------------------------------------------------------
(* Characters and texts *)

\* An empty spreadsheet cell as pandas loads it (float NaN).
NaN == <<"<NaN>">>

EmptyText == <<>>

\* Code-point order of the characters the model uses (sort_values compares
\* Python strings, that is code points).
CharOrder ==
    <<"TAB", " ", "(", ")", "-", ".", "0", "1", "2", "3", "4", "5", "6", "7",
      "8", "9", "@",
      "A", "B", "C", "D", "E", "F", "G", "H", "I", "J", "K", "L", "M", "N",
      "O", "P", "Q", "R", "S", "T", "U", "V", "W", "X", "Y", "Z", "_",
      "a", "b", "c", "d", "e", "f", "g", "h", "i", "j", "k", "l", "m", "n",
      "o", "p", "q", "r", "s", "t", "u", "v", "w", "x", "y", "z",
      "NBSP", "ZWSP">>

Ord(c) == CHOOSE i \in 1..Len(CharOrder) : CharOrder[i] = c

UpperLetters ==
    <<"A", "B", "C", "D", "E", "F", "G", "H", "I", "J", "K", "L", "M", "N",
      "O", "P", "Q", "R", "S", "T", "U", "V", "W", "X", "Y", "Z">>

LowerLetters ==
    <<"a", "b", "c", "d", "e", "f", "g", "h", "i", "j", "k", "l", "m", "n",
      "o", "p", "q", "r", "s", "t", "u", "v", "w", "x", "y", "z">>

\* str.isspace: what str.strip() strips and the regex \s matches.
IsSpace(c) == c \in {" ", "TAB", "NBSP"}

\* One character of str.casefold() / str.lower().
FoldChar(c) ==
    IF \E i \in 1..Len(UpperLetters) : UpperLetters[i] = c
    THEN LowerLetters[CHOOSE i \in 1..Len(UpperLetters) : UpperLetters[i] = c]
    ELSE c

casefold(s) == [i \in 1..Len(s) |-> FoldChar(s[i])]

\* str.replace(a, b) for a one-character a and a one-character b.
ReplaceChar(s, a, b) == [i \in 1..Len(s) |-> IF s[i] = a THEN b ELSE s[i]]

\* str.replace(a, "") for a one-character a.
RemoveChar(s, a) == SelectSeq(s, LAMBDA c : c /= a)

RECURSIVE LStrip(_)
LStrip(s) ==
    IF s /= <<>> /\ IsSpace(Head(s)) THEN LStrip(Tail(s)) ELSE s

RECURSIVE RStrip(_)
RStrip(s) ==
    IF s /= <<>> /\ IsSpace(s[Len(s)])
    THEN RStrip(SubSeq(s, 1, Len(s) - 1))
    ELSE s

\* str.strip()
strip(s) == RStrip(LStrip(s))

\* re.sub(r"\s+", " ", s): every maximal run of whitespace becomes one " ".
RECURSIVE CollapseFrom(_, _)
CollapseFrom(s, i) ==
    IF i > Len(s) THEN <<>>
    ELSE IF IsSpace(s[i])
         THEN IF i > 1 /\ IsSpace(s[i - 1])
              THEN CollapseFrom(s, i + 1)
              ELSE <<" ">> \o CollapseFrom(s, i + 1)
         ELSE <<s[i]>> \o CollapseFrom(s, i + 1)

CollapseSpaces(s) == CollapseFrom(s, 1)

\* Series.astype(str) on one cell: NaN becomes the text "nan".
astype_str(c) == IF c = NaN THEN <<"n", "a", "n">> ELSE c

\* Series.fillna("") on one cell.
fillna(c) == IF c = NaN THEN EmptyText ELSE c

\* Series.replace({"nan": ""}) on one cell: a whole-value, case-sensitive match.
replace_nan(s) == IF s = <<"n", "a", "n">> THEN EmptyText ELSE s

\* Strict lexicographic order of two texts by code point.
RECURSIVE TextLess(_, _)
TextLess(a, b) ==
    IF b = <<>> THEN FALSE
    ELSE IF a = <<>> THEN TRUE
    ELSE IF Head(a) = Head(b) THEN TextLess(Tail(a), Tail(b))
    ELSE Ord(Head(a)) < Ord(Head(b))

----------------------------------------------------------------------------
(* constants.py *)

ALLOWED_STATUS ==
    << <<"I","n"," ","P","r","o","g","r","e","s","s">>,
       <<"C","o","m","p","l","e","t","e","d">>,
       <<"N","o","t"," ","S","t","a","r","t","e","d">>,
       <<"S","u","b","m","i","t","t","e","d">>,
       <<"R","e","j","e","c","t","e","d">> >>

ALLOWED_CYCLES ==
    << <<"F","Y","2","6","-","Q","3","(","J","a","n","-","M","a","r",")">>,
       <<"F","Y","2","6","-","Q","2","(","O","c","t","-","D","e","c",")">>,
       <<"F","Y","2","6","-","Q","1","(","J","u","l","y","-","S","e","p",")">>,
       <<"F","Y","2","6","-","Q","4","(","A","p","r","-","J","u","n",")">> >>

DEFAULT_COLUMNS ==
    [gpn_id |-> <<"G","P","N">>,
     name   |-> <<"N","a","m","e">>,
     status |-> <<"S","t","a","t","u","s">>,
     cycle  |-> <<"C","o","m","p","l","e","t","i","o","n","-","C","y","c","l","e">>]

----------------------------------------------------------------------------
(* clean_series, on one cell *)

clean_series(c) ==
    casefold(
      CollapseSpaces(
        replace_nan(
          strip(
            RemoveChar(
              ReplaceChar(astype_str(c), "NBSP", " "),
              "ZWSP")))))

----------------------------------------------------------------------------
(* coalesce_columns *)

\* hdr_clean, nested in coalesce_columns
hdr_clean(x) == strip(RemoveChar(ReplaceChar(x, "NBSP", " "), "ZWSP"))

\* norm, nested in coalesce_columns: each "-" and each "_" becomes one space;
\* nothing is collapsed and nothing is trimmed after the replacement.
norm(x) ==
    ReplaceChar(ReplaceChar(casefold(strip(hdr_clean(x))), "-", " "), "_", " ")

\* norm_map with the first of several columns of one normalised label kept.
norm_map_FirstWins(columns) ==
    [k \in {norm(columns[i]) : i \in 1..Len(columns)} |->
        columns[CHOOSE i \in 1..Len(columns) :
                    /\ norm(columns[i]) = k
                    /\ \A j \in 1..Len(columns) : norm(columns[j]) = k => i <= j]]

\* norm_map = {norm(c): c for c in df.columns}: a later column with the same
\* normalised label overwrites an earlier one.
norm_map(columns) ==
    [k \in {norm(columns[i]) : i \in 1..Len(columns)} |->
        columns[CHOOSE i \in 1..Len(columns) :
                    /\ norm(columns[i]) = k
                    /\ \A j \in 1..Len(columns) : norm(columns[j]) = k => j <= i]]

\* The KeyError of coalesce_columns, with the two lists its message names.
KeyError(tried, available) ==
    [raised |-> "KeyError", tried |-> tried, available |-> available]

\* A normal return of coalesce_columns.
Found(label) == [raised |-> "none", column |-> label]

RECURSIVE FirstCandidate(_, _, _, _)
FirstCandidate(columns, cands, k, nm) ==
    IF k > Len(cands) THEN KeyError(cands, columns)
    ELSE IF norm(cands[k]) \in DOMAIN nm THEN Found(nm[norm(cands[k])])
    ELSE FirstCandidate(columns, cands, k + 1, nm)

coalesce_columns(columns, primary, alternates) ==
    FirstCandidate(columns, <<primary>> \o alternates, 1, norm_map(columns))

----------------------------------------------------------------------------
(* Tables: a DataFrame is its column labels and a sequence of rows          *)
(* [idx |-> index label, cells |-> one cell per column].                    *)

\* Position of a label among the columns (labels of a DataFrame are unique).
ColumnIndex(columns, label) ==
    CHOOSE i \in 1..Len(columns) : columns[i] = label

\* df[label] at one row.
Cell(columns, row, label) == row.cells[ColumnIndex(columns, label)]

\* df[mask]: the rows at the positions of I, in their order.
RECURSIVE MaskFrom(_, _, _)
MaskFrom(s, I, i) ==
    IF i > Len(s) THEN <<>>
    ELSE (IF i \in I THEN <<s[i]>> ELSE <<>>) \o MaskFrom(s, I, i + 1)

Mask(s, I) == MaskFrom(s, I, 1)

\* sort_values(..., kind="stable"), and sort_values on several keys (a
\* lexsort).  less holds the pairs <<i, j>> of positions with s[i] ordered
\* before s[j]; rows that less does not order keep their input order.
StableSort(s, less) ==
    LET n == Len(s)
        rank(i) ==
            Cardinality({j \in 1..n :
                            \/ <<j, i>> \in less
                            \/ (<<i, j>> \notin less /\ j < i)}) + 1
    IN  [k \in 1..n |-> s[CHOOSE i \in 1..n : rank(i) = k]]

\* drop_duplicates(subset=..., keep="first"); keys[i] is the subset of s[i].
DropDuplicates(s, keys) ==
    Mask(s, {i \in 1..Len(s) : \A j \in 1..(i - 1) : keys[j] /= keys[i]})

\* ", ".join(r): the names of r with the separator between them.
RECURSIVE Join(_)
Join(r) ==
    IF r = <<>> THEN <<>>
    ELSE IF Len(r) = 1 THEN r
    ELSE <<Head(r), ", ">> \o Join(Tail(r))

\* {x.casefold() for x in xs}
FoldedSet(xs) == {casefold(xs[i]) : i \in 1..Len(xs)}

----------------------------------------------------------------------------
(* compute_exceptions *)

\* RowReasons with the invalid masks not restricted to non-blank values.
RowReasons_NoBlankGuard(status_norm, cycle_norm, gpn, name) ==
    LET status_allowed == FoldedSet(ALLOWED_STATUS)
        cycle_allowed  == FoldedSet(ALLOWED_CYCLES)
    IN  (IF status_norm = EmptyText THEN <<"Blank Status">> ELSE <<>>)
     \o (IF status_norm \notin status_allowed THEN <<"Invalid Status">> ELSE <<>>)
     \o (IF cycle_norm = EmptyText THEN <<"Blank Completion-Cycle">> ELSE <<>>)
     \o (IF cycle_norm \notin cycle_allowed
         THEN <<"Invalid Completion-Cycle">> ELSE <<>>)
     \o (IF gpn = EmptyText THEN <<"Blank GPN">> ELSE <<>>)
     \o (IF name = EmptyText THEN <<"Blank Name">> ELSE <<>>)

\* The list r built for one row from the six masks, in the order of the
\* six if-statements.
RowReasons(status_norm, cycle_norm, gpn, name) ==
    LET status_blank   == status_norm = EmptyText
        cycle_blank    == cycle_norm = EmptyText
        status_allowed == FoldedSet(ALLOWED_STATUS)
        cycle_allowed  == FoldedSet(ALLOWED_CYCLES)
        status_invalid == (~status_blank) /\ (status_norm \notin status_allowed)
        cycle_invalid  == (~cycle_blank) /\ (cycle_norm \notin cycle_allowed)
        gpn_blank      == gpn = EmptyText
        name_blank     == name = EmptyText
    IN  (IF status_blank   THEN <<"Blank Status">> ELSE <<>>)
     \o (IF status_invalid THEN <<"Invalid Status">> ELSE <<>>)
     \o (IF cycle_blank    THEN <<"Blank Completion-Cycle">> ELSE <<>>)
     \o (IF cycle_invalid  THEN <<"Invalid Completion-Cycle">> ELSE <<>>)
     \o (IF gpn_blank      THEN <<"Blank GPN">> ELSE <<>>)
     \o (IF name_blank     THEN <<"Blank Name">> ELSE <<>>)

compute_exceptions(columns, rows, col_gpn, col_name, col_status, col_cycle) ==
    LET reason(i) ==
            Join(RowReasons(
                clean_series(fillna(Cell(columns, rows[i], col_status))),
                clean_series(fillna(Cell(columns, rows[i], col_cycle))),
                clean_series(Cell(columns, rows[i], col_gpn)),
                clean_series(Cell(columns, rows[i], col_name))))
        out == [i \in 1..Len(rows) |->
                   [idx |-> rows[i].idx, cells |-> rows[i].cells,
                    ExceptionReason |-> reason(i)]]
    IN  Mask(out, {i \in 1..Len(out) : out[i].ExceptionReason /= <<>>})

----------------------------------------------------------------------------
(* apply_filters *)

\* apply_filters with an empty selection matching no row.
apply_filters_EmptyMatchesNothing(columns, rows, col_status, col_cycle, selStatus, selCycle) ==
    LET s_norm(i) == clean_series(fillna(Cell(columns, rows[i], col_status)))
        c_norm(i) == clean_series(fillna(Cell(columns, rows[i], col_cycle)))
    IN  Mask(rows, {i \in 1..Len(rows) :
                       /\ s_norm(i) \in FoldedSet(selStatus)
                       /\ c_norm(i) \in FoldedSet(selCycle)})

apply_filters(columns, rows, col_status, col_cycle, selStatus, selCycle) ==
    LET s_norm(i) == clean_series(fillna(Cell(columns, rows[i], col_status)))
        c_norm(i) == clean_series(fillna(Cell(columns, rows[i], col_cycle)))
        all_true  == 1..Len(rows)
        mask1 == IF selStatus /= <<>>
                 THEN {i \in all_true : s_norm(i) \in FoldedSet(selStatus)}
                 ELSE all_true
        mask2 == IF selCycle /= <<>>
                 THEN {i \in mask1 : c_norm(i) \in FoldedSet(selCycle)}
                 ELSE mask1
    IN  Mask(rows, mask2)

----------------------------------------------------------------------------
(* build_unique_gpn *)

\* dropna(subset=[col_gpn]): drops the rows whose identifier is NaN.  The
\* identifier was produced by clean_series, which turns NaN into a text, so
\* an empty identifier is a text and is kept.
dropna(rows) == SelectSeq(rows, LAMBDA r : r.gpn /= NaN)

\* Order of sort_values([col_gpn, col_name]).
GpnNameLess(a, b) ==
    \/ TextLess(a.gpn, b.gpn)
    \/ (a.gpn = b.gpn /\ TextLess(a.name, b.name))

\* The pairs of positions of rows that GpnNameLess orders.
GpnNamePairs(rows) ==
    {p \in (1..Len(rows)) \X (1..Len(rows)) : GpnNameLess(rows[p[1]], rows[p[2]])}

\* The identifier column.
GpnOf(rows) == [i \in 1..Len(rows) |-> rows[i].gpn]

build_unique_gpn(columns, rows, col_gpn, col_name) ==
    LET assigned == [i \in 1..Len(rows) |->
                        [gpn  |-> clean_series(Cell(columns, rows[i], col_gpn)),
                         name |-> clean_series(Cell(columns, rows[i], col_name))]]
        sorted   == StableSort(dropna(assigned), GpnNamePairs(dropna(assigned)))
    IN  DropDuplicates(sorted, GpnOf(sorted))

----------------------------------------------------------------------------
(* build_gpn_to_email_map *)

\* The _EMAIL_raw column on one cell: as clean_series, without the
\* replacement of "nan" and without the case-fold.
email_raw(c) ==
    CollapseSpaces(
      strip(RemoveChar(ReplaceChar(astype_str(c), "NBSP", " "), "ZWSP")))

\* Order of sort_values(["_GPN_norm", "_email_blank"]); False sorts before True.
GpnBlankLess(a, b) ==
    \/ TextLess(a.GPN_norm, b.GPN_norm)
    \/ (a.GPN_norm = b.GPN_norm /\ ~a.email_blank /\ b.email_blank)

\* The pairs of positions of rows that GpnBlankLess orders.
GpnBlankPairs(rows) ==
    {p \in (1..Len(rows)) \X (1..Len(rows)) : GpnBlankLess(rows[p[1]], rows[p[2]])}

\* The _GPN_norm column.
GpnNormOf(rows) == [i \in 1..Len(rows) |-> rows[i].GPN_norm]

MASTER_GPN == <<"G","P","N">>

MASTER_GPN_ALTERNATES ==
    << <<"G","P","N"," ","I","D">>, <<"G","p","n">>,
       <<"G","P","N","_","I","d">>, <<"G","P","N"," ","I","d">> >>

MASTER_EMAIL == <<"E","m","a","i","l"," ","I","D">>

MASTER_EMAIL_ALTERNATES ==
    << <<"E","m","a","i","l","I","D">>, <<"E","m","a","i","l">>,
       <<"E","m","a","i","l"," ","A","d","d","r","e","s","s">>,
       <<"M","a","i","l">>, <<"E","-","m","a","i","l"," ","I","D">> >>

\* The rows of dedup, in order: one per identifier.
MasterDedup(columns, rows, col_gpn, col_email) ==
    LET normed == [i \in 1..Len(rows) |->
                      [GPN_norm    |-> clean_series(Cell(columns, rows[i], col_gpn)),
                       EMAIL_raw   |-> email_raw(Cell(columns, rows[i], col_email)),
                       email_blank |-> email_raw(Cell(columns, rows[i], col_email))
                                          = EmptyText]]
        kept   == SelectSeq(normed, LAMBDA r : r.GPN_norm /= EmptyText)
        sorted == StableSort(kept, GpnBlankPairs(kept))
    IN  DropDuplicates(sorted, GpnNormOf(sorted))

\* dict(zip(dedup["_GPN_norm"], dedup["_EMAIL_raw"]))
DictZip(dedup) ==
    [k \in {dedup[i].GPN_norm : i \in 1..Len(dedup)} |->
        dedup[CHOOSE i \in 1..Len(dedup) : dedup[i].GPN_norm = k].EMAIL_raw]

\* Returns [raised |-> "none", map |-> the dict], or the KeyError of the
\* first coalesce_columns that fails.
build_gpn_to_email_map(columns, rows) ==
    LET col_gpn   == coalesce_columns(columns, MASTER_GPN, MASTER_GPN_ALTERNATES)
        col_email == coalesce_columns(columns, MASTER_EMAIL, MASTER_EMAIL_ALTERNATES)
    IN  IF col_gpn.raised /= "none" THEN col_gpn
        ELSE IF col_email.raised /= "none" THEN col_email
        ELSE [raised |-> "none",
              map |-> DictZip(MasterDedup(columns, rows, col_gpn.column,
                                          col_email.column))]

\* gpn_to_email.get(key, "")
DictGet(d, key) == IF key \in DOMAIN d THEN d[key] ELSE EmptyText

----------------------------------------------------------------------------
(* prompt_multi_select *)

\* What the user types: Enter alone, "all" ("a", "*"), or a list of numbers.
Typed(kind, numbers) == [kind |-> kind, numbers |-> numbers]

\* picked = [options[i-1] for i in idxs if 1 <= i <= len(options)]
Picked(options, idxs) ==
    LET inRange == SelectSeq(idxs, LAMBDA i : 1 <= i /\ i <= Len(options))
    IN  [k \in 1..Len(inRange) |-> options[inRange[k]]]

\* The loop over picked that keeps the first occurrence of each option.
Unique(picked) ==
    Mask(picked, {i \in 1..Len(picked) :
                     \A j \in 1..(i - 1) : picked[j] /= picked[i]})

\* Whether the loop returns on this input (otherwise it prompts again).
prompt_returns(options, typed) ==
    \/ typed.kind \in {"enter", "all"}
    \/ (typed.kind = "numbers" /\ Picked(options, typed.numbers) /= <<>>)

prompt_multi_select(options, typed) ==
    IF typed.kind = "enter" THEN <<>>
    ELSE IF typed.kind = "all" THEN options
    ELSE Unique(Picked(options, typed.numbers))

----------------------------------------------------------------------------
(* perform_action_with_emails *)

\* The first loop: trimmed, non-empty addresses, the first of each
\* lower-cased spelling.
RECURSIVE CleanEmails(_, _, _)
CleanEmails(emails, seen, clean) ==
    IF emails = <<>> THEN clean
    ELSE LET s == strip(Head(emails))
             k == casefold(s)
         IN  IF s /= EmptyText /\ k \notin seen
             THEN CleanEmails(Tail(emails), seen \cup {k}, Append(clean, s))
             ELSE CleanEmails(Tail(emails), seen, clean)

NoMail == [state |-> "none", to |-> <<>>]

\* perform_action_with_emails without the early return on an empty list.
perform_action_with_emails_NoEmptyGuard(emails, display_before_send, outlook) ==
    LET clean == CleanEmails(emails, {}, <<>>)
    IN  IF outlook = "com_error"
        THEN [mail |-> NoMail, printed |-> <<>>, raised |-> "com_error"]
        ELSE IF display_before_send
        THEN [mail |-> [state |-> "displayed", to |-> clean],
              printed |-> <<"Displayed email for review.">>, raised |-> "none"]
        ELSE IF outlook = "send_error"
        THEN [mail |-> [state |-> "draft", to |-> clean], printed |-> <<>>,
              raised |-> "RuntimeError"]
        ELSE [mail |-> [state |-> "sent", to |-> clean],
              printed |-> <<"Email sent to all recipients!">>, raised |-> "none"]

\* outlook: what the mail client does, "ok", "com_error" (EnsureDispatch or
\* CreateItem raises) or "send_error" (mail.Send raises).
\* Returns the item, the lines printed and the exception raised.
perform_action_with_emails(emails, display_before_send, outlook) ==
    LET clean == CleanEmails(emails, {}, <<>>)
    IN  IF clean = <<>>
        THEN [mail |-> NoMail, printed |-> <<"No valid emails to send.">>,
              raised |-> "none"]
        ELSE IF outlook = "com_error"
        THEN [mail |-> NoMail, printed |-> <<>>, raised |-> "com_error"]
        ELSE IF display_before_send
        THEN [mail |-> [state |-> "displayed", to |-> clean],
              printed |-> <<"Displayed email for review.">>, raised |-> "none"]
        ELSE IF outlook = "send_error"
        THEN [mail |-> [state |-> "draft", to |-> clean], printed |-> <<>>,
              raised |-> "RuntimeError"]
        ELSE [mail |-> [state |-> "sent", to |-> clean],
              printed |-> <<"Email sent to all recipients!">>, raised |-> "none"]

----------------------------------------------------------------------------
(* main(): one action per stage *)

NoError == [kind |-> "none", tried |-> <<>>, available |-> <<>>]

ErrorOf(kind) == [kind |-> kind, tried |-> <<>>, available |-> <<>>]

ErrorOfKeyError(e) ==
    [kind |-> "KeyError", tried |-> e.tried, available |-> e.available]

GPN_ALTERNATES ==
    << <<"G","P","N","I","D">>, <<"G","P","N"," ","I","d">>,
       <<"G","P","N","_","I","d">>, <<"G","P","N"," ","I","D">> >>

NAME_ALTERNATES ==
    << <<"E","m","p","l","o","y","e","e"," ","N","a","m","e">>,
       <<"F","u","l","l"," ","N","a","m","e">> >>

STATUS_ALTERNATES == << <<"S","t","a","t","u","s">> >>

CYCLE_ALTERNATES ==
    << <<"C","o","m","p","l","e","t","i","o","n"," ","C","y","c","l","e">>,
       <<"C","o","m","p","l","e","t","i","o","n","C","y","c","l","e">> >>

\* sys.exit(code), or an uncaught exception (exit status 1).
Exit(code, err) ==
    /\ pc' = "exit"
    /\ exit_code' = code
    /\ error' = err

\* Lines 228-237: both data files must exist; then the roster is loaded.
Start ==
    /\ pc = "start"
    /\ \E badges_exists \in BOOLEAN, master_exists \in BOOLEAN :
         IF badges_exists /\ master_exists
         THEN /\ pc' = "loaded"
              /\ stages' = Append(stages, "Load")
              /\ UNCHANGED <<stdout, exit_code, error>>
         ELSE /\ stdout' = Append(stdout, "ERROR: file not found")
              /\ Exit(1, ErrorOf("file_missing"))
              /\ UNCHANGED stages
    /\ UNCHANGED <<df_columns, df, dfm_columns, dfm, col, exceptions,
                   sel_status, sel_cycle, filtered, output_by_gpn,
                   gpn_to_email, valid_emails, missing_gpns, mail, arg, ret>>

\* Lines 239-245: the four coalesce_columns calls; the first KeyError is
\* printed to stderr and the run exits with status 1.
ResolveColumns ==
    /\ pc = "loaded"
    /\ stages' = Append(stages, "ResolveColumns")
    /\ LET g == coalesce_columns(df_columns, DEFAULT_COLUMNS.gpn_id, GPN_ALTERNATES)
           n == coalesce_columns(df_columns, DEFAULT_COLUMNS.name, NAME_ALTERNATES)
           s == coalesce_columns(df_columns, DEFAULT_COLUMNS.status, STATUS_ALTERNATES)
           c == coalesce_columns(df_columns, DEFAULT_COLUMNS.cycle, CYCLE_ALTERNATES)
           failed == SelectSeq(<<g, n, s, c>>, LAMBDA r : r.raised /= "none")
       IN  IF failed = <<>>
           THEN /\ col' = [gpn |-> g.column, name |-> n.column,
                           status |-> s.column, cycle |-> c.column]
                /\ pc' = "columns"
                /\ UNCHANGED <<exit_code, error>>
           ELSE /\ Exit(1, ErrorOfKeyError(Head(failed)))
                /\ UNCHANGED col
    /\ UNCHANGED <<df_columns, df, dfm_columns, dfm, exceptions, sel_status,
                   sel_cycle, filtered, output_by_gpn, gpn_to_email,
                   valid_emails, missing_gpns, stdout, mail, arg, ret>>

\* Lines 247-256: compute_exceptions and the exception report.
ClassifyExceptions ==
    /\ pc = "columns"
    /\ exceptions' = compute_exceptions(df_columns, df, col.gpn, col.name,
                                        col.status, col.cycle)
    /\ stdout' = Append(stdout, IF exceptions' = <<>>
                                THEN "All good, there is no issue with data."
                                ELSE "===== Exceptional-Cases =====")
    /\ stages' = stages \o <<"ClassifyExceptions", "ReportExceptions">>
    /\ pc' = "classified"
    /\ UNCHANGED <<df_columns, df, dfm_columns, dfm, col, sel_status,
                   sel_cycle, filtered, output_by_gpn, gpn_to_email,
                   valid_emails, missing_gpns, exit_code, error, mail, arg, ret>>

\* What the user may type at a prompt.
TypedInputs ==
    {Typed("enter", <<>>), Typed("all", <<>>), Typed("numbers", <<2, 2>>),
     Typed("numbers", <<9>>)}

\* Lines 258-263: the two prompts and the echo of the selections.
CollectSelections ==
    /\ pc = "classified"
    /\ \E t1 \in TypedInputs, t2 \in TypedInputs :
         /\ prompt_returns(ALLOWED_STATUS, t1)
         /\ prompt_returns(ALLOWED_CYCLES, t2)
         /\ sel_status' = prompt_multi_select(ALLOWED_STATUS, t1)
         /\ sel_cycle' = prompt_multi_select(ALLOWED_CYCLES, t2)
    /\ stdout' = Append(stdout, "Selections:")
    /\ stages' = Append(stages, "CollectSelections")
    /\ pc' = "selected"
    /\ UNCHANGED <<df_columns, df, dfm_columns, dfm, col, exceptions,
                   filtered, output_by_gpn, gpn_to_email, valid_emails,
                   missing_gpns, exit_code, error, mail, arg, ret>>

\* Line 265
Filter ==
    /\ pc = "selected"
    /\ filtered' = apply_filters(df_columns, df, col.status, col.cycle,
                                 sel_status, sel_cycle)
    /\ stages' = Append(stages, "Filter")
    /\ pc' = "filtered"
    /\ UNCHANGED <<df_columns, df, dfm_columns, dfm, col, exceptions,
                   sel_status, sel_cycle, output_by_gpn, gpn_to_email,
                   valid_emails, missing_gpns, stdout, exit_code, error, mail,
                   arg, ret>>

\* Lines 267-276: build_unique_gpn and the listing; an empty result ends the
\* run with sys.exit(0).
Deduplicate ==
    /\ pc = "filtered"
    /\ output_by_gpn' = build_unique_gpn(df_columns, filtered, col.gpn, col.name)
    /\ stages' = Append(stages, "Deduplicate")
    /\ IF output_by_gpn' = <<>>
       THEN /\ stdout' = stdout \o <<"===== Filtered Output (unique by GPN) =====",
                                     "No rows matched your selections.">>
            /\ Exit(0, NoError)
       ELSE /\ stdout' = stdout \o <<"===== Filtered Output (unique by GPN) =====",
                                     "Unique GPNs:">>
            /\ pc' = "deduped"
            /\ UNCHANGED <<exit_code, error>>
    /\ UNCHANGED <<df_columns, df, dfm_columns, dfm, col, exceptions,
                   sel_status, sel_cycle, filtered, gpn_to_email, valid_emails,
                   missing_gpns, mail, arg, ret>>

\* Line 278: build_gpn_to_email_map; its KeyError is not caught, the run
\* ends with a traceback and exit status 1.
BuildContactMap ==
    /\ pc = "deduped"
    /\ stages' = Append(stages, "BuildContactMap")
    /\ LET r == build_gpn_to_email_map(dfm_columns, dfm)
       IN  IF r.raised = "none"
           THEN /\ gpn_to_email' = r.map
                /\ pc' = "mapped"
                /\ UNCHANGED <<exit_code, error>>
           ELSE /\ Exit(1, ErrorOfKeyError(r))
                /\ UNCHANGED gpn_to_email
    /\ UNCHANGED <<df_columns, df, dfm_columns, dfm, col, exceptions,
                   sel_status, sel_cycle, filtered, output_by_gpn,
                   valid_emails, missing_gpns, stdout, mail, arg, ret>>

\* The loop of lines 284-293 over the rows of output_by_gpn.
RECURSIVE ResolveLoop(_, _, _, _)
ResolveLoop(rows, map, missing, valid) ==
    IF rows = <<>> THEN [missing_gpns |-> missing, valid_emails |-> valid]
    ELSE LET gpn_val == strip(astype_str(Head(rows).gpn))
             email   == DictGet(map, casefold(gpn_val))
         IN  IF email = EmptyText
             THEN ResolveLoop(Tail(rows), map, Append(missing, gpn_val), valid)
             ELSE ResolveLoop(Tail(rows), map, missing, Append(valid, email))

\* Lines 280-293
ResolveContacts ==
    /\ pc = "mapped"
    /\ LET r == ResolveLoop(output_by_gpn, gpn_to_email, <<>>, <<>>)
       IN  /\ missing_gpns' = r.missing_gpns
           /\ valid_emails' = r.valid_emails
    /\ stdout' = Append(stdout, "===== GPN -> Email =====")
    /\ stages' = Append(stages, "ResolveContacts")
    /\ pc' = "resolved"
    /\ UNCHANGED <<df_columns, df, dfm_columns, dfm, col, exceptions,
                   sel_status, sel_cycle, filtered, output_by_gpn,
                   gpn_to_email, exit_code, error, mail, arg, ret>>

\* Lines 295-304: load_email_config, load_email_template (either raises
\* FileNotFoundError when its file is missing) and
\* perform_action_with_emails(..., display_before_send=True).  No exception
\* is caught here.
Handoff ==
    /\ pc = "resolved"
    /\ stages' = Append(stages, "Handoff")
    /\ \E files \in {"ok", "no_config", "no_template"},
          outlook \in {"ok", "com_error", "send_error"} :
         IF files /= "ok"
         THEN /\ Exit(1, ErrorOf("FileNotFoundError"))
              /\ UNCHANGED <<mail, stdout>>
         ELSE LET r == perform_action_with_emails(valid_emails, TRUE, outlook)
              IN  /\ mail' = r.mail
                  /\ stdout' = stdout \o r.printed
                  /\ IF r.raised = "none"
                     THEN /\ pc' = "handed"
                          /\ UNCHANGED <<exit_code, error>>
                     ELSE Exit(1, ErrorOf(r.raised))
    /\ UNCHANGED <<df_columns, df, dfm_columns, dfm, col, exceptions,
                   sel_status, sel_cycle, filtered, output_by_gpn,
                   gpn_to_email, valid_emails, missing_gpns, arg, ret>>

\* Lines 306-309, then the normal end of main().
ReportMissing ==
    /\ pc = "handed"
    /\ stdout' = IF missing_gpns /= <<>>
                 THEN Append(stdout, "-- Missing emails for these GPNs --")
                 ELSE stdout
    /\ stages' = Append(stages, "ReportUnresolved")
    /\ Exit(0, NoError)
    /\ UNCHANGED <<df_columns, df, dfm_columns, dfm, col, exceptions,
                   sel_status, sel_cycle, filtered, output_by_gpn,
                   gpn_to_email, valid_emails, missing_gpns, mail, arg, ret>>

----------------------------------------------------------------------------
(* Inputs *)

\* Most rows of a table in one run.
MaxRows == 2

\* The tables with at most n rows whose rows of cells are drawn from cellRows;
\* the index is the RangeIndex read_excel gives.
Tables(cellRows, n) ==
    UNION {{[i \in 1..k |-> [idx |-> i - 1, cells |-> f[i]]] :
                f \in [1..k -> cellRows]} : k \in 0..n}

Q1 == ALLOWED_CYCLES[3]

\* Headers of the roster: the default ones, and a sheet with no status column.
RosterHeaders ==
    {<<DEFAULT_COLUMNS.gpn_id, DEFAULT_COLUMNS.name, DEFAULT_COLUMNS.status,
       DEFAULT_COLUMNS.cycle>>,
     <<DEFAULT_COLUMNS.gpn_id, DEFAULT_COLUMNS.name, <<"S","t","a","t","e">>,
       DEFAULT_COLUMNS.cycle>>}

\* Roster rows (GPN, Name, Status, Completion-Cycle).
RosterRows ==
    {<< <<"A","1">>, <<"A","l","i","c","e">>, ALLOWED_STATUS[2], Q1 >>,
     << NaN, <<"B","o","b">>, <<"W","e","i","r","d">>, NaN >>,
     << <<"a","1"," ">>, <<"A","l">>, ALLOWED_STATUS[3], Q1 >>}

\* Headers of the master sheet: resolvable, and a sheet with no e-mail column.
MasterHeaders ==
    {<<MASTER_GPN, MASTER_EMAIL>>,
     <<MASTER_GPN, <<"C","o","n","t","a","c","t">> >>}

\* Master rows (GPN, Email ID).
MasterRows ==
    {<< <<"A","1">>, <<"a","1","@","e","x",".","c","o","m">> >>,
     << <<"a","1">>, NaN >>,
     << <<"A","1">>, <<" ">> >>}

NoColumns == [gpn |-> <<>>, name |-> <<>>, status |-> <<>>, cycle |-> <<>>]

\* The columns main() resolves on a roster with the default headers.
DefaultBinding ==
    [gpn |-> DEFAULT_COLUMNS.gpn_id, name |-> DEFAULT_COLUMNS.name,
     status |-> DEFAULT_COLUMNS.status, cycle |-> DEFAULT_COLUMNS.cycle]

\* Everything main() has not computed yet.
Fresh ==
    /\ exceptions = <<>>
    /\ sel_status = <<>>
    /\ sel_cycle = <<>>
    /\ filtered = <<>>
    /\ output_by_gpn = <<>>
    /\ gpn_to_email = <<>>
    /\ valid_emails = <<>>
    /\ missing_gpns = <<>>
    /\ stdout = <<>>
    /\ exit_code = -1
    /\ error = NoError
    /\ mail = NoMail
    /\ arg = <<>>
    /\ ret = <<>>

Init ==
    /\ pc = "start"
    /\ df_columns \in RosterHeaders
    /\ df \in Tables(RosterRows, MaxRows)
    /\ dfm_columns \in MasterHeaders
    /\ dfm \in Tables(MasterRows, MaxRows)
    /\ col = NoColumns
    /\ stages = <<>>
    /\ Fresh

Next ==
    \/ Start
    \/ ResolveColumns
    \/ ClassifyExceptions
    \/ CollectSelections
    \/ Filter
    \/ Deduplicate
    \/ BuildContactMap
    \/ ResolveContacts
    \/ Handoff
    \/ ReportMissing

Spec == Init /\ [][Next]_vars

----------------------------------------------------------------------------
(* The stages of main() one at a time, each from the states main() can be   *)
(* in when it reaches the stage, over a wider choice of cells.              *)

DefaultHeaders ==
    <<DEFAULT_COLUMNS.gpn_id, DEFAULT_COLUMNS.name, DEFAULT_COLUMNS.status,
      DEFAULT_COLUMNS.cycle>>

\* stdout after ClassifyExceptions on these rows.
ReportOf(rows) ==
    IF compute_exceptions(DefaultHeaders, rows, DefaultBinding.gpn,
                          DefaultBinding.name, DefaultBinding.status,
                          DefaultBinding.cycle) = <<>>
    THEN "All good, there is no issue with data."
    ELSE "===== Exceptional-Cases ====="

\* The default headers, resolved.
Bound ==
    /\ df_columns = DefaultHeaders
    /\ dfm_columns = <<MASTER_GPN, MASTER_EMAIL>>
    /\ col = DefaultBinding

\* The run has not ended and nothing was handed off.
Running ==
    /\ exit_code = -1
    /\ error = NoError
    /\ mail = NoMail
    /\ arg = <<>>
    /\ ret = <<>>

\* The contact stages have not run.
Unresolved ==
    /\ gpn_to_email = <<>>
    /\ valid_emails = <<>>
    /\ missing_gpns = <<>>

\* Rows for compute_exceptions (GPN, Name, Status, Completion-Cycle).
ExceptionRows ==
    {<<g, n, s, c>> :
        g \in {NaN, <<"A","1">>},
        n \in {<<" ">>, <<"A","l">>},
        s \in {NaN, <<"NBSP","C","o","m","p","l","e","t","e","d">>,
               <<"B","o","g","u","s">>, <<"N","a","N">>},
        c \in {NaN, <<"f","y","2","6","-","q","1","(","j","u","l","y","-","s","e","p",")"," ">>,
               <<"n","o","p","e">>}}

InitExceptions ==
    /\ pc = "columns"
    /\ df \in Tables(ExceptionRows, MaxRows)
    /\ dfm = <<>>
    /\ Bound
    /\ exceptions = <<>>
    /\ sel_status = <<>>
    /\ sel_cycle = <<>>
    /\ filtered = <<>>
    /\ output_by_gpn = <<>>
    /\ Unresolved
    /\ stdout = <<>>
    /\ stages = <<"Load", "ResolveColumns">>
    /\ Running

SpecExceptions == InitExceptions /\ [][ClassifyExceptions]_vars

\* Rows for apply_filters.
FilterRows ==
    {<< <<"A","1">>, <<"A","l">>, s, c >> :
        s \in {NaN, ALLOWED_STATUS[2], <<" ","C","o","m","p","l","e","t","e","d">>,
               ALLOWED_STATUS[5]},
        c \in {NaN, Q1,
               <<"f","y","2","6","-","q","1","(","j","u","l","y","-","s","e","p",")"," ">>}}

\* Selections prompt_multi_select can return.
StatusSelections ==
    {<<>>, <<ALLOWED_STATUS[2]>>, <<ALLOWED_STATUS[5], ALLOWED_STATUS[2]>>,
     <<ALLOWED_STATUS[4]>>}

CycleSelections == {<<>>, <<Q1>>, <<ALLOWED_CYCLES[1]>>}

\* The result of ClassifyExceptions on the roster.
Classified ==
    exceptions = compute_exceptions(df_columns, df, col.gpn, col.name,
                                    col.status, col.cycle)

InitFilter ==
    /\ pc = "selected"
    /\ df \in Tables(FilterRows, MaxRows)
    /\ dfm = <<>>
    /\ Bound
    /\ Classified
    /\ sel_status \in StatusSelections
    /\ sel_cycle \in CycleSelections
    /\ filtered = <<>>
    /\ output_by_gpn = <<>>
    /\ Unresolved
    /\ Running
    /\ stdout = <<ReportOf(df), "Selections:">>
    /\ stages = <<"Load", "ResolveColumns", "ClassifyExceptions",
                  "ReportExceptions", "CollectSelections">>

SpecFilter == InitFilter /\ [][Filter]_vars

\* Rows for build_unique_gpn.
DedupeRows ==
    {<<g, n, ALLOWED_STATUS[2], Q1>> :
        g \in {NaN, <<" ">>, <<"X","1">>, <<"x","1"," ">>, <<"Y","2">>},
        n \in {NaN, <<"B","o","b">>, <<"A","l","i","c","e">>}}

InitDedupe ==
    /\ pc = "filtered"
    /\ df \in Tables(DedupeRows, MaxRows)
    /\ dfm = <<>>
    /\ Bound
    /\ Classified
    /\ sel_status = <<>>
    /\ sel_cycle = <<>>
    /\ filtered = df
    /\ output_by_gpn = <<>>
    /\ Unresolved
    /\ Running
    /\ stdout = <<ReportOf(df), "Selections:">>
    /\ stages = <<"Load", "ResolveColumns", "ClassifyExceptions",
                  "ReportExceptions", "CollectSelections", "Filter">>

SpecDedupe == InitDedupe /\ [][Deduplicate]_vars

\* Rows for build_gpn_to_email_map (GPN, Email ID).
MapRows ==
    {<<g, e>> :
        g \in {NaN, <<"X","1">>, <<"x","1"," ">>, <<"Y","2">>},
        e \in {NaN, <<" ">>, <<"x","1","@","e","x",".","c","o","m">>,
               <<"X","1","@","E","X",".","c","o","m">>}}

\* A roster whose de-duplicated listing is not empty.
OneRowRoster ==
    <<[idx |-> 0,
       cells |-> << <<"X","1">>, <<"A","l","i","c","e">>, ALLOWED_STATUS[2], Q1 >>]>>

InitMap ==
    /\ pc = "deduped"
    /\ df = OneRowRoster
    /\ dfm \in Tables(MapRows, MaxRows)
    /\ df_columns = DefaultHeaders
    /\ dfm_columns \in MasterHeaders
    /\ col = DefaultBinding
    /\ Classified
    /\ sel_status = <<>>
    /\ sel_cycle = <<>>
    /\ filtered = df
    /\ output_by_gpn = build_unique_gpn(df_columns, filtered, col.gpn, col.name)
    /\ Unresolved
    /\ stdout = <<ReportOf(df), "Selections:",
                  "===== Filtered Output (unique by GPN) =====", "Unique GPNs:">>
    /\ stages = <<"Load", "ResolveColumns", "ClassifyExceptions",
                  "ReportExceptions", "CollectSelections", "Filter",
                  "Deduplicate">>
    /\ Running

SpecMap == InitMap /\ [][BuildContactMap]_vars

----------------------------------------------------------------------------
(* clean_series and coalesce_columns as functions of their arguments *)

\* No table is loaded and main() is not running.
NoRun ==
    /\ df_columns = <<>>
    /\ df = <<>>
    /\ dfm_columns = <<>>
    /\ dfm = <<>>
    /\ col = NoColumns
    /\ exceptions = <<>>
    /\ sel_status = <<>>
    /\ sel_cycle = <<>>
    /\ filtered = <<>>
    /\ output_by_gpn = <<>>
    /\ Unresolved
    /\ stdout = <<>>
    /\ stages = <<>>
    /\ exit_code = -1
    /\ error = NoError
    /\ mail = NoMail

NoRunVars ==
    <<df_columns, df, dfm_columns, dfm, col, exceptions, sel_status, sel_cycle,
      filtered, output_by_gpn, gpn_to_email, valid_emails, missing_gpns,
      stdout, stages, exit_code, error, mail>>

\* Longest cell text given to clean_series.
MaxLen == 3

CellChars == {"n", "a", "N", "x", " ", "TAB", "NBSP", "ZWSP"}

Texts(chars, n) == UNION {[1..k -> chars] : k \in 0..n}

InitClean ==
    /\ pc = "clean_series"
    /\ arg \in Texts(CellChars, MaxLen) \cup {NaN}
    /\ ret = <<>>
    /\ NoRun

\* clean_series on the cell.
Normalize ==
    /\ pc = "clean_series"
    /\ ret = <<>>
    /\ ret' = <<clean_series(arg)>>
    /\ UNCHANGED <<pc, arg, NoRunVars>>

\* clean_series on its own result.
NormalizeAgain ==
    /\ pc = "clean_series"
    /\ Len(ret) = 1
    /\ ret' = Append(ret, clean_series(ret[1]))
    /\ UNCHANGED <<pc, arg, NoRunVars>>

NextClean == Normalize \/ NormalizeAgain

SpecClean == InitClean /\ [][NextClean]_vars

\* Most columns of a table, and most alternates of a call.
MaxCols == 2

MaxAlts == 1

\* Header labels: two spellings of "GPN", three of "GPN ID", and "Name".
HeaderLabels ==
    {<<"G","P","N">>,
     <<"g","ZWSP","p","n","NBSP">>,
     <<"G","P","N"," ","I","D">>,
     <<"G","P","N","-","I","D">>,
     <<"G","P","N","_","-","I","D">>,
     <<"N","a","m","e">>}

\* Column lists: labels of a DataFrame are unique.
ColumnLists(n) ==
    {s \in Texts(HeaderLabels, n) :
        \A i \in 1..Len(s), j \in 1..Len(s) : i /= j => s[i] /= s[j]}

InitCols ==
    /\ pc = "coalesce_columns"
    /\ arg \in [columns : ColumnLists(MaxCols), primary : HeaderLabels,
                alternates : Texts(HeaderLabels, MaxAlts)]
    /\ ret = <<>>
    /\ NoRun

\* One call of coalesce_columns.
Coalesce ==
    /\ pc = "coalesce_columns"
    /\ ret = <<>>
    /\ ret' = <<coalesce_columns(arg.columns, arg.primary, arg.alternates)>>
    /\ UNCHANGED <<pc, arg, NoRunVars>>

SpecCols == InitCols /\ [][Coalesce]_vars

----------------------------------------------------------------------------
(* Properties *)

Range(s) == {s[i] : i \in 1..Len(s)}

Min(S) == CHOOSE x \in S : \A y \in S : x <= y

Max(S) == CHOOSE x \in S : \A y \in S : y <= x

\* The normalised identifier and name of a roster row.
RowGpn(row) == clean_series(Cell(df_columns, row, col.gpn))

RowName(row) == clean_series(Cell(df_columns, row, col.name))

\* C1: build_unique_gpn returns exactly one row per distinct non-empty
\* normalised identifier of its input and no row with an empty identifier;
\* the row kept carries the smallest normalised name of its identifier, and
\* the output ascends by (identifier, name).
C1_OneRowPerNonEmptyIdentifier ==
    "Deduplicate" \in Range(stages) =>
        LET ids == {RowGpn(filtered[i]) : i \in 1..Len(filtered)} \ {EmptyText}
            names(id) == {RowName(filtered[i]) :
                             i \in {j \in 1..Len(filtered) : RowGpn(filtered[j]) = id}}
            n == Len(output_by_gpn)
        IN  /\ \A k \in 1..n : output_by_gpn[k].gpn /= EmptyText
            /\ {output_by_gpn[k].gpn : k \in 1..n} = ids
            /\ \A k \in 1..n, l \in 1..n :
                 k < l => GpnNameLess(output_by_gpn[k], output_by_gpn[l])
                          /\ output_by_gpn[k].gpn /= output_by_gpn[l].gpn
            /\ \A k \in 1..n :
                 /\ output_by_gpn[k].name \in names(output_by_gpn[k].gpn)
                 /\ \A m \in names(output_by_gpn[k].gpn) :
                      ~TextLess(m, output_by_gpn[k].name)

\* C2: clean_series is idempotent: applied to its own result it returns that
\* result, for every cell text, the spellings of "nan" and texts with
\* U+00A0 or U+200B included.
C2_CleanSeriesIdempotent == Len(ret) = 2 => ret[2] = ret[1]

RuleOrder ==
    <<"Blank Status", "Invalid Status", "Blank Completion-Cycle",
      "Invalid Completion-Cycle", "Blank GPN", "Blank Name">>

\* The rules a roster row violates.
Violations(row) ==
    LET status == clean_series(Cell(df_columns, row, col.status))
        cycle  == clean_series(Cell(df_columns, row, col.cycle))
    IN  {r \in Range(RuleOrder) :
            \/ (r = "Blank Status" /\ status = EmptyText)
            \/ (r = "Invalid Status" /\ status /= EmptyText
                  /\ \A a \in 1..Len(ALLOWED_STATUS) : casefold(ALLOWED_STATUS[a]) /= status)
            \/ (r = "Blank Completion-Cycle" /\ cycle = EmptyText)
            \/ (r = "Invalid Completion-Cycle" /\ cycle /= EmptyText
                  /\ \A a \in 1..Len(ALLOWED_CYCLES) : casefold(ALLOWED_CYCLES[a]) /= cycle)
            \/ (r = "Blank GPN" /\ RowGpn(row) = EmptyText)
            \/ (r = "Blank Name" /\ RowName(row) = EmptyText)}

\* C3: compute_exceptions returns, in input order, exactly the rows that
\* violate a rule, each annotated with the names of the rules it violates in
\* the fixed order, joined by ", "; Blank and Invalid never appear together
\* for one field.
C3_ExceptionsAreTheViolatingRows ==
    "ClassifyExceptions" \in Range(stages) =>
        LET n == Len(exceptions)
        IN  /\ \A a \in 1..n, b \in 1..n :
                 a < b => exceptions[a].idx < exceptions[b].idx
            /\ \A i \in 1..Len(df) :
                 (Violations(df[i]) /= {})
                     <=> (\E k \in 1..n : exceptions[k].idx = df[i].idx)
            /\ \A k \in 1..n : \E i \in 1..Len(df) :
                 /\ exceptions[k].idx = df[i].idx
                 /\ exceptions[k].cells = df[i].cells
                 /\ exceptions[k].ExceptionReason =
                      Join(SelectSeq(RuleOrder, LAMBDA r : r \in Violations(df[i])))
            /\ \A k \in 1..n :
                 /\ ~({"Blank Status", "Invalid Status"}
                         \subseteq Range(exceptions[k].ExceptionReason))
                 /\ ~({"Blank Completion-Cycle", "Invalid Completion-Cycle"}
                         \subseteq Range(exceptions[k].ExceptionReason))

\* A row with three violations is reported and a clean row is left out.
C3_Witness ==
    /\ pc = "classified"
    /\ Len(exceptions) < Len(df)
    /\ \E k \in 1..Len(exceptions) :
         exceptions[k].ExceptionReason =
            <<"Invalid Status", ", ", "Blank Completion-Cycle", ", ", "Blank GPN">>

\* Whether apply_filters is to keep a roster row.
Selected(row) ==
    /\ \/ sel_status = <<>>
       \/ \E s \in 1..Len(sel_status) :
            casefold(sel_status[s]) = clean_series(Cell(df_columns, row, col.status))
    /\ \/ sel_cycle = <<>>
       \/ \E c \in 1..Len(sel_cycle) :
            casefold(sel_cycle[c]) = clean_series(Cell(df_columns, row, col.cycle))

\* C4: apply_filters keeps a row iff each non-empty selection holds the
\* row's normalised value, in input order; empty selections keep every row,
\* and a selection no value of which occurs in the table keeps none.
C4_FilterKeepsSelectedRows ==
    "Filter" \in Range(stages) =>
        LET n == Len(filtered)
        IN  /\ \A a \in 1..n, b \in 1..n :
                 a < b => filtered[a].idx < filtered[b].idx
            /\ \A k \in 1..n : \E i \in 1..Len(df) : filtered[k] = df[i]
            /\ \A i \in 1..Len(df) :
                 Selected(df[i]) <=> (\E k \in 1..n : filtered[k] = df[i])
            /\ (sel_status = <<>> /\ sel_cycle = <<>>) => filtered = df
            /\ (/\ sel_status /= <<>>
                /\ \A i \in 1..Len(df), s \in 1..Len(sel_status) :
                     casefold(sel_status[s])
                        /= clean_series(Cell(df_columns, df[i], col.status)))
                  => filtered = <<>>

\* Both selections are set; one row passes and one does not.
C4_Witness ==
    /\ pc = "filtered"
    /\ sel_status /= <<>>
    /\ sel_cycle /= <<>>
    /\ filtered /= <<>>
    /\ Len(filtered) < Len(df)

\* A header label with U+00A0 and U+200B cleaned, trimmed, lower-cased, and
\* each "-" and "_" turned into one space.
Label(x) ==
    ReplaceChar(
      ReplaceChar(
        casefold(strip(RemoveChar(ReplaceChar(x, "NBSP", " "), "ZWSP"))),
        "-", " "),
      "_", " ")

\* The same with runs of "-", "_" and whitespace collapsed to one space.
CollapsedLabel(x) == CollapseSpaces(Label(x))

\* The candidates of the call under study, and the result it gave.
Candidates == <<arg.primary>> \o arg.alternates

\* C5, as stated: coalesce_columns returns the first column whose label,
\* normalised with runs collapsed, equals that of the earliest candidate with
\* a match, and raises KeyError, naming the candidates and the columns,
\* exactly when no candidate matches.
C5_FirstColumnCollapsedLabel ==
    ret /= <<>> =>
        LET columns == arg.columns
            hits(k) == {i \in 1..Len(columns) :
                           CollapsedLabel(columns[i]) = CollapsedLabel(Candidates[k])}
            matching == {k \in 1..Len(Candidates) : hits(k) /= {}}
        IN  IF matching = {}
            THEN /\ ret[1].raised = "KeyError"
                 /\ ret[1].tried = Candidates
                 /\ ret[1].available = columns
            ELSE /\ ret[1].raised = "none"
                 /\ ret[1].column = columns[Min(hits(Min(matching)))]

\* C5, amended: the label is normalised without collapsing runs, and among
\* the columns that match the earliest matching candidate the last one of
\* the table is returned.
C5_LastColumnOfEarliestCandidate ==
    ret /= <<>> =>
        LET columns == arg.columns
            hits(k) == {i \in 1..Len(columns) :
                           Label(columns[i]) = Label(Candidates[k])}
            matching == {k \in 1..Len(Candidates) : hits(k) /= {}}
        IN  IF matching = {}
            THEN /\ ret[1].raised = "KeyError"
                 /\ ret[1].tried = Candidates
                 /\ ret[1].available = columns
            ELSE /\ ret[1].raised = "none"
                 /\ ret[1].column = columns[Max(hits(Min(matching)))]

\* The primary matches nothing, the alternate matches both columns, and the
\* second column is returned.
C5_Witness ==
    /\ ret /= <<>>
    /\ ret[1].raised = "none"
    /\ Len(arg.columns) = 2
    /\ Len(arg.alternates) = 1
    /\ \A i \in 1..2 : Label(arg.columns[i]) /= Label(arg.primary)
    /\ \A i \in 1..2 : Label(arg.columns[i]) = Label(arg.alternates[1])
    /\ ret[1].column = arg.columns[2]

\* The identifier and contact columns of the master sheet.
MasterGpn(row) ==
    Cell(dfm_columns, row,
         coalesce_columns(dfm_columns, MASTER_GPN, MASTER_GPN_ALTERNATES).column)

MasterEmail(row) ==
    Cell(dfm_columns, row,
         coalesce_columns(dfm_columns, MASTER_EMAIL, MASTER_EMAIL_ALTERNATES).column)

\* A contact cell is blank when it is missing or holds nothing but
\* whitespace and zero-width spaces.
BlankContact(row) ==
    \/ MasterEmail(row) = NaN
    \/ email_raw(MasterEmail(row)) = EmptyText

\* C6: build_gpn_to_email_map has one entry per distinct non-empty
\* normalised identifier of the master sheet; the entry is the contact of
\* the first row of the identifier, in table order, whose contact is not
\* blank, and the empty text only if every row of the identifier has a blank
\* contact, whatever the order of the rows.
C6_FirstNonBlankContactPerIdentifier ==
    pc = "mapped" =>
        LET id(j) == clean_series(MasterGpn(dfm[j]))
            ids == {id(j) : j \in 1..Len(dfm)} \ {EmptyText}
        IN  /\ DOMAIN gpn_to_email = ids
            /\ \A k \in ids :
                 LET nonBlank == {j \in 1..Len(dfm) :
                                     id(j) = k /\ ~BlankContact(dfm[j])}
                 IN  IF nonBlank = {}
                     THEN gpn_to_email[k] = EmptyText
                     ELSE gpn_to_email[k] = email_raw(MasterEmail(dfm[Min(nonBlank)]))

\* C7: after ResolveContacts every identifier of the de-duplicated roster is
\* in exactly one of the two lists; an identifier is unresolved exactly when
\* the master sheet has no row for it or every row for it has an empty or
\* missing contact cell, and the recipients of the mail come from resolved
\* identifiers only.  (Stated for the non-empty identifiers.)
C7_UnresolvedIffNoContactCell ==
    "ResolveContacts" \in Range(stages) =>
        /\ Len(missing_gpns) + Len(valid_emails) = Len(output_by_gpn)
        /\ \A k \in 1..Len(output_by_gpn) :
             LET id == output_by_gpn[k].gpn
                 rowsFor == {j \in 1..Len(dfm) : clean_series(MasterGpn(dfm[j])) = id}
                 noContact == \A j \in rowsFor : BlankContact(dfm[j])
             IN  id /= EmptyText => ((id \in Range(missing_gpns)) <=> noContact)
        /\ Range(mail.to) \subseteq Range(valid_emails)

\* C8: when a required column cannot be resolved, in the roster or in the
\* master sheet, the run ends with a non-zero exit status before any report
\* output and without a hand-off.
C8_ColumnFailureBeforeAnyOutput ==
    (pc = "exit" /\ error.kind = "KeyError") =>
        /\ exit_code /= 0
        /\ stdout = <<>>
        /\ mail = NoMail
        /\ "Handoff" \notin Range(stages)

\* C9: no message is composed in a run with no resolved contact.  When
\* Deduplicate yields no row the run reports that no rows matched and ends
\* with status 0 before BuildContactMap, ResolveContacts and Handoff; and a
\* mail item exists only if some resolved contact is not blank.
C9_NoMessageWithoutContact ==
    /\ ("Deduplicate" \in Range(stages) /\ output_by_gpn = <<>>) =>
          /\ pc = "exit"
          /\ exit_code = 0
          /\ error = NoError
          /\ stdout[Len(stdout)] = "No rows matched your selections."
          /\ Range(stages) \cap {"BuildContactMap", "ResolveContacts", "Handoff"} = {}
          /\ DOMAIN gpn_to_email = {}
          /\ mail = NoMail
    /\ mail /= NoMail =>
          \E i \in 1..Len(valid_emails) :
             \E j \in 1..Len(valid_emails[i]) : ~IsSpace(valid_emails[i][j])
    /\ ("Handoff" \in Range(stages) /\ valid_emails = <<>>) =>
          /\ mail = NoMail
          /\ (error = NoError => "No valid emails to send." \in Range(stdout))

\* The hand-off ran on an empty list of resolved contacts.
C9_Witness ==
    /\ pc = "handed"
    /\ output_by_gpn /= <<>>
    /\ valid_emails = <<>>
    /\ missing_gpns /= <<>>
    /\ mail = NoMail

\* C10: in a run that reaches ResolveContacts the unresolved identifiers are
\* reported before the hand-off starts, hence also when the hand-off fails.
C10_UnresolvedReportedBeforeHandoff ==
    ("Handoff" \in Range(stages) /\ missing_gpns /= <<>>) =>
        "-- Missing emails for these GPNs --" \in Range(stdout)

====
